---------------------------- MODULE Spec2Model ----------------------------
(***************************************************************************)
(* GtkShortcutTrigger (gtk/gtkshortcuttrigger.c): reference-counted,       *)
(* immutable shortcut triggers of three classes (never, keyval,            *)
(* alternative).  The module models the heap of trigger structures, the    *)
(* references the callers own, and every public entry point as one action. *)
(* A second specification, ConcSpec, runs gtk_shortcut_trigger_unref() in   *)
(* several threads one atomic memory operation at a time.                  *)
(***************************************************************************)
EXTENDS Integers, Sequences, FiniteSets, TLC

(***************************************************************************)
(* Bounds of the model.                                                    *)
(***************************************************************************)
\* Structures g_malloc0() can hand out at the same time.
MaxObj == 3
\* Cap on a reference count (gatomicrefcount is unbounded in practice).
MaxRef == 2
\* Threads of ConcSpec.
NThreads == 2
\* Cap on a reference count in ConcSpec.
ConcMaxRef == 3
\* Structures allocated at the same time in ConcSpec.
ConcMaxObj == 2

(***************************************************************************)
(* Program constants.                                                      *)
(***************************************************************************)
NULL == 0
\* Address of the static singleton "never".
never == 1

GDK_KEY_A == 65
GDK_KEY_a == 97
GDK_KEY_Tab == 65289
GDK_KEY_ISO_Left_Tab == 65056
GDK_SHIFT_MASK == 1
GDK_CONTROL_MASK == 4

GTK_SHORTCUT_TRIGGER_NEVER == "GTK_SHORTCUT_TRIGGER_NEVER"
GTK_SHORTCUT_TRIGGER_KEYVAL == "GTK_SHORTCUT_TRIGGER_KEYVAL"
GTK_SHORTCUT_TRIGGER_ALTERNATIVE == "GTK_SHORTCUT_TRIGGER_ALTERNATIVE"

\* Addresses g_malloc0() returns, and all addresses holding a structure.
Dyn == (never + 1)..(never + MaxObj)
Addr == {never} \cup Dyn

\* Inputs the callers draw from in KeySpec: every key, modifier state and event.
Keys == {GDK_KEY_A, GDK_KEY_a, GDK_KEY_Tab, GDK_KEY_ISO_Left_Tab}
Mods == {0, GDK_SHIFT_MASK, GDK_CONTROL_MASK, GDK_CONTROL_MASK + GDK_SHIFT_MASK}
EventTypes == {"GDK_KEY_PRESS", "GDK_KEY_RELEASE"}
Events == [type : EventTypes, keyval : Keys, state : Mods]

\* Inputs the callers draw from in Spec: two keyval triggers, and events that
\* match one of them, the other, or neither.
SomeKeys == {GDK_KEY_A, GDK_KEY_ISO_Left_Tab}
SomeMods == {GDK_CONTROL_MASK}
SomeEvents == [type : EventTypes, keyval : {GDK_KEY_a, GDK_KEY_Tab}, state : SomeMods]

VARIABLES
  heap,     \* Addr -> structure (struct _GtkShortcutTrigger and its subclasses)
  owned,    \* Addr -> number of references the callers own (transfer full)
  fault,    \* "none", or the way the process died
  made,     \* Addr -> the arguments its constructor was called with
  last,     \* the call in progress: its arguments, result and what it did
  thr       \* ConcSpec: thread -> its references and its call stack

vars == <<heap, owned, made, fault, last, thr>>

(***************************************************************************)
(* Memory.                                                                 *)
(***************************************************************************)
\* A slot that holds no structure (never allocated, or freed).
FreeSlot ==
  [st |-> "Free", trigger_type |-> GTK_SHORTCUT_TRIGGER_NEVER, ref_count |-> 0,
   keyval |-> 0, modifiers |-> 0, first |-> NULL, second |-> NULL]

\* static GtkNeverTrigger never = { { &GTK_NEVER_TRIGGER_CLASS, 1 } };
NeverObj ==
  [st |-> "Live", trigger_type |-> GTK_SHORTCUT_TRIGGER_NEVER, ref_count |-> 1,
   keyval |-> 0, modifiers |-> 0, first |-> NULL, second |-> NULL]

InitHeap == [a \in Addr |-> IF a = never THEN NeverObj ELSE FreeSlot]

\* #define GTK_IS_SHORTCUT_TRIGGER(obj) ((obj) != NULL)
GTK_IS_SHORTCUT_TRIGGER(obj) == obj # NULL

GTK_IS_SHORTCUT_TRIGGER_TYPE(h, trigger, type) ==
  GTK_IS_SHORTCUT_TRIGGER(trigger) /\ h[trigger].trigger_type = type

\* g_malloc0(): the lowest address holding no structure.
Malloc(h) == CHOOSE a \in Dyn : h[a].st = "Free" /\ \A b \in Dyn : h[b].st = "Free" => a <= b

CanMalloc(h) == \E a \in Dyn : h[a].st = "Free"

FreeSlots(h) == {a \in Dyn : h[a].st = "Free"}

\* gtk_shortcut_trigger_new(): zeroed structure, reference count 1, class set.
gtk_shortcut_trigger_new(h, self, trigger_type) ==
  [h EXCEPT ![self] = [FreeSlot EXCEPT !.st = "Live", !.ref_count = 1,
                                       !.trigger_type = trigger_type]]

(***************************************************************************)
(* Key normalisation.                                                      *)
(***************************************************************************)
\* gdk_keyval_to_lower(): the lower-case form of a key value.
gdk_keyval_to_lower(keyval) ==
  IF keyval \in GDK_KEY_A..(GDK_KEY_A + 25) THEN keyval + (GDK_KEY_a - GDK_KEY_A) ELSE keyval

(***************************************************************************)
(* Reference counting.  The operators thread a record m through a call:    *)
(* m.h the heap, m.decs the structures whose count was decremented, in     *)
(* order, m.frees the structures freed, in order, m.fault the way the      *)
(* process died, if it did.                                                *)
(***************************************************************************)
Mem(h) == [h |-> h, decs |-> <<>>, frees |-> <<>>, fault |-> "none"]

\* g_atomic_ref_count_inc (&self->ref_count)
g_atomic_ref_count_inc(h, self) ==
  [h EXCEPT ![self].ref_count = @ + 1]

\* g_atomic_ref_count_dec (&self->ref_count): decrements; the caller tests for 0.
g_atomic_ref_count_dec(m, self) ==
  [m EXCEPT !.h[self].ref_count = @ - 1, !.decs = Append(@, self)]

\* g_free (self)
g_free(m, self) ==
  IF m.h[self].st # "Live"
  THEN [m EXCEPT !.fault = "double_free"]
  ELSE [m EXCEPT !.h[self] = FreeSlot, !.frees = Append(@, self)]

RECURSIVE gtk_shortcut_trigger_unref(_, _)
RECURSIVE gtk_shortcut_trigger_finalize(_, _)

\* g_assert_not_reached ()
gtk_never_trigger_finalize(m, trigger) ==
  [m EXCEPT !.fault = "g_assert_not_reached"]

gtk_keyval_trigger_finalize(m, trigger) == m

\* Mutant: the first sub-trigger is released twice, the second never.
gtk_alternative_trigger_finalize_first_twice(m, trigger) ==
  LET m1 == gtk_shortcut_trigger_unref(m, m.h[trigger].first)
  IN  IF m1.fault # "none" THEN m1
      ELSE gtk_shortcut_trigger_unref(m1, m1.h[trigger].first)

gtk_alternative_trigger_finalize(m, trigger) ==
  LET m1 == gtk_shortcut_trigger_unref(m, m.h[trigger].first)
  IN  IF m1.fault # "none" THEN m1
      ELSE gtk_shortcut_trigger_unref(m1, m1.h[trigger].second)

\* self->trigger_class->finalize (self)
class_finalize(m, self) ==
  CASE m.h[self].trigger_type = GTK_SHORTCUT_TRIGGER_NEVER ->
         gtk_never_trigger_finalize(m, self)
    [] m.h[self].trigger_type = GTK_SHORTCUT_TRIGGER_KEYVAL ->
         gtk_keyval_trigger_finalize(m, self)
    [] m.h[self].trigger_type = GTK_SHORTCUT_TRIGGER_ALTERNATIVE ->
         gtk_alternative_trigger_finalize(m, self)

\* Mutant: the structure is freed without running the finalize hook of its class.
gtk_shortcut_trigger_finalize_no_hook(m, self) == g_free(m, self)

gtk_shortcut_trigger_finalize(m, self) ==
  LET m1 == class_finalize(m, self)
  IN  IF m1.fault # "none" THEN m1 ELSE g_free(m1, self)

gtk_shortcut_trigger_unref(m, self) ==
  IF ~GTK_IS_SHORTCUT_TRIGGER(self) THEN m
  ELSE IF m.h[self].st # "Live" THEN [m EXCEPT !.fault = "use_after_free"]
  ELSE LET m1 == g_atomic_ref_count_dec(m, self)
       IN  IF m1.h[self].ref_count = 0
           THEN gtk_shortcut_trigger_finalize(m1, self)
           ELSE m1

\* Mutant: the reference count is left as it was.
gtk_shortcut_trigger_ref_no_inc(h, self) == h

\* gtk_shortcut_trigger_ref(): the heap after the call (the handle is returned).
gtk_shortcut_trigger_ref(h, self) ==
  IF ~GTK_IS_SHORTCUT_TRIGGER(self) THEN h
  ELSE g_atomic_ref_count_inc(h, self)

(***************************************************************************)
(* Evaluation.  An evaluator returns its result and, in order, the         *)
(* evaluators that ran, each with its nesting depth.                       *)
(***************************************************************************)
RECURSIVE gtk_shortcut_trigger_trigger(_, _, _, _)

gtk_never_trigger_trigger(h, trigger, event, depth) ==
  [ret |-> FALSE, calls |-> <<[self |-> trigger, depth |-> depth]>>]

\* Mutant: the modifiers of the trigger only need to be present in the event.
gtk_keyval_trigger_trigger_subset(h, trigger, event, depth) ==
  LET me == <<[self |-> trigger, depth |-> depth]>>
      Bits(x) == {i \in 0..3 : (x \div (2 ^ i)) % 2 = 1}
      keyval == IF event.keyval = GDK_KEY_ISO_Left_Tab
                THEN GDK_KEY_Tab
                ELSE gdk_keyval_to_lower(event.keyval)
  IN  IF event.type # "GDK_KEY_PRESS"
      THEN [ret |-> FALSE, calls |-> me]
      ELSE [ret |-> (keyval = h[trigger].keyval
                       /\ Bits(h[trigger].modifiers) \subseteq Bits(event.state)),
            calls |-> me]

gtk_keyval_trigger_trigger(h, trigger, event, depth) ==
  LET me == <<[self |-> trigger, depth |-> depth]>>
      modifiers == event.state
      keyval == IF event.keyval = GDK_KEY_ISO_Left_Tab
                THEN GDK_KEY_Tab
                ELSE gdk_keyval_to_lower(event.keyval)
  IN  IF event.type # "GDK_KEY_PRESS"
      THEN [ret |-> FALSE, calls |-> me]
      ELSE [ret |-> (keyval = h[trigger].keyval /\ modifiers = h[trigger].modifiers),
            calls |-> me]

\* Mutant: both sub-triggers are always evaluated.
gtk_alternative_trigger_trigger_eager(h, trigger, event, depth) ==
  LET me == <<[self |-> trigger, depth |-> depth]>>
      r1 == gtk_shortcut_trigger_trigger(h, h[trigger].first, event, depth + 1)
      r2 == gtk_shortcut_trigger_trigger(h, h[trigger].second, event, depth + 1)
  IN  [ret |-> (r1.ret \/ r2.ret), calls |-> me \o r1.calls \o r2.calls]

\* Mutant: the second sub-trigger is consulted only when the first matched.
gtk_alternative_trigger_trigger_and(h, trigger, event, depth) ==
  LET me == <<[self |-> trigger, depth |-> depth]>>
      r1 == gtk_shortcut_trigger_trigger(h, h[trigger].first, event, depth + 1)
      r2 == gtk_shortcut_trigger_trigger(h, h[trigger].second, event, depth + 1)
  IN  IF ~r1.ret THEN [ret |-> FALSE, calls |-> me \o r1.calls]
      ELSE [ret |-> r2.ret, calls |-> me \o r1.calls \o r2.calls]

gtk_alternative_trigger_trigger(h, trigger, event, depth) ==
  LET me == <<[self |-> trigger, depth |-> depth]>>
      r1 == gtk_shortcut_trigger_trigger(h, h[trigger].first, event, depth + 1)
      r2 == gtk_shortcut_trigger_trigger(h, h[trigger].second, event, depth + 1)
  IN  IF r1.ret THEN [ret |-> TRUE, calls |-> me \o r1.calls]
      ELSE IF r2.ret THEN [ret |-> TRUE, calls |-> me \o r1.calls \o r2.calls]
      ELSE [ret |-> FALSE, calls |-> me \o r1.calls \o r2.calls]

gtk_shortcut_trigger_trigger(h, self, event, depth) ==
  IF ~GTK_IS_SHORTCUT_TRIGGER(self) THEN [ret |-> FALSE, calls |-> <<>>]
  ELSE CASE h[self].trigger_type = GTK_SHORTCUT_TRIGGER_NEVER ->
              gtk_never_trigger_trigger(h, self, event, depth)
         [] h[self].trigger_type = GTK_SHORTCUT_TRIGGER_KEYVAL ->
              gtk_keyval_trigger_trigger(h, self, event, depth)
         [] h[self].trigger_type = GTK_SHORTCUT_TRIGGER_ALTERNATIVE ->
              gtk_alternative_trigger_trigger(h, self, event, depth)

(***************************************************************************)
(* Constructors and accessors.                                             *)
(***************************************************************************)
gtk_shortcut_trigger_get_trigger_type(h, self) ==
  IF ~GTK_IS_SHORTCUT_TRIGGER(self) THEN GTK_SHORTCUT_TRIGGER_NEVER
  ELSE h[self].trigger_type

\* gtk_never_trigger_get(): &never.trigger
gtk_never_trigger_get == never

\* Mutant: ISO_Left_Tab is not canonicalised when the trigger is built.
gtk_keyval_trigger_new_no_tab(h, self, keyval, modifiers) ==
  LET h1 == gtk_shortcut_trigger_new(h, self, GTK_SHORTCUT_TRIGGER_KEYVAL)
  IN  [h1 EXCEPT ![self].keyval = gdk_keyval_to_lower(keyval),
                 ![self].modifiers = modifiers]

\* gtk_keyval_trigger_new(): the heap with the new structure at address self.
gtk_keyval_trigger_new(h, self, keyval, modifiers) ==
  LET h1 == gtk_shortcut_trigger_new(h, self, GTK_SHORTCUT_TRIGGER_KEYVAL)
  IN  [h1 EXCEPT ![self].keyval = IF keyval = GDK_KEY_ISO_Left_Tab
                                  THEN GDK_KEY_Tab
                                  ELSE gdk_keyval_to_lower(keyval),
                 ![self].modifiers = modifiers]

gtk_keyval_trigger_get_modifiers(h, self) ==
  IF ~GTK_IS_SHORTCUT_TRIGGER_TYPE(h, self, GTK_SHORTCUT_TRIGGER_KEYVAL) THEN 0
  ELSE h[self].modifiers

gtk_keyval_trigger_get_keyval(h, self) ==
  IF ~GTK_IS_SHORTCUT_TRIGGER_TYPE(h, self, GTK_SHORTCUT_TRIGGER_KEYVAL) THEN 0
  ELSE h[self].keyval

\* Mutant: only the first argument is checked.
gtk_alternative_trigger_new_ret_first_only(h, first, second) ==
  IF ~GTK_IS_SHORTCUT_TRIGGER(first) THEN NULL
  ELSE Malloc(h)

\* gtk_alternative_trigger_new(): the returned handle (NULL when rejected).
gtk_alternative_trigger_new_ret(h, first, second) ==
  IF ~GTK_IS_SHORTCUT_TRIGGER(first) THEN NULL
  ELSE IF ~GTK_IS_SHORTCUT_TRIGGER(second) THEN NULL
  ELSE Malloc(h)

\* Mutant: the constructor acquires references of its own on both arguments.
gtk_alternative_trigger_new_refs(h, first, second) ==
  LET self == gtk_alternative_trigger_new_ret(h, first, second)
      h1 == gtk_shortcut_trigger_ref(gtk_shortcut_trigger_ref(h, first), second)
  IN  IF self = NULL THEN h
      ELSE [gtk_shortcut_trigger_new(h1, self, GTK_SHORTCUT_TRIGGER_ALTERNATIVE)
              EXCEPT ![self].first = first, ![self].second = second]

\* gtk_alternative_trigger_new(): the heap after the call.
gtk_alternative_trigger_new(h, first, second) ==
  LET self == gtk_alternative_trigger_new_ret(h, first, second)
  IN  IF self = NULL THEN h
      ELSE [gtk_shortcut_trigger_new(h, self, GTK_SHORTCUT_TRIGGER_ALTERNATIVE)
              EXCEPT ![self].first = first, ![self].second = second]

gtk_alternative_trigger_get_first(h, self) ==
  IF ~GTK_IS_SHORTCUT_TRIGGER_TYPE(h, self, GTK_SHORTCUT_TRIGGER_ALTERNATIVE) THEN NULL
  ELSE h[self].first

gtk_alternative_trigger_get_second(h, self) ==
  IF ~GTK_IS_SHORTCUT_TRIGGER_TYPE(h, self, GTK_SHORTCUT_TRIGGER_ALTERNATIVE) THEN NULL
  ELSE h[self].second

(***************************************************************************)
(* The callers.  A caller passes a (transfer full) argument only when it   *)
(* owns that reference, and any other argument when it holds the handle:   *)
(* the singleton (transfer none), a reference it owns, or a child reached  *)
(* through gtk_alternative_trigger_get_first/second (transfer none).       *)
(***************************************************************************)
RECURSIVE Descendants(_, _)
Descendants(h, a) ==
  IF a = NULL \/ h[a].st # "Live" THEN {}
  ELSE IF h[a].trigger_type = GTK_SHORTCUT_TRIGGER_ALTERNATIVE
       THEN {a} \cup Descendants(h, h[a].first) \cup Descendants(h, h[a].second)
       ELSE {a}

Owned == {a \in Addr : owned[a] > 0}

Held == {gtk_never_trigger_get} \cup UNION {Descendants(heap, a) : a \in Owned}

Threads == 1..NThreads

NoEvent == [type |-> "GDK_KEY_RELEASE", keyval |-> GDK_KEY_a, state |-> 0]

NoCall ==
  [op |-> "none", self |-> NULL, first |-> NULL, second |-> NULL,
   keyval |-> 0, modifiers |-> 0, event |-> NoEvent,
   ret |-> NULL, retb |-> FALSE, rett |-> GTK_SHORTCUT_TRIGGER_NEVER,
   calls |-> <<>>, decs |-> <<>>, frees |-> <<>>]

NoArgs == [keyval |-> 0, modifiers |-> 0, first |-> NULL, second |-> NULL]

NoThread == [owned |-> [a \in Addr |-> 0], stack |-> <<>>]

Init ==
  /\ heap = InitHeap
  /\ owned = [a \in Addr |-> 0]
  /\ made = [a \in Addr |-> NoArgs]
  /\ fault = "none"
  /\ last = NoCall
  /\ thr = [t \in Threads |-> NoThread]

\* The process is alive and the callers are between two calls.
Idle == fault = "none" /\ last.op = "none"

Call_gtk_never_trigger_get ==
  /\ Idle
  /\ last' = [NoCall EXCEPT !.op = "gtk_never_trigger_get", !.ret = gtk_never_trigger_get]
  /\ UNCHANGED <<heap, owned, made, fault, thr>>

Call_gtk_keyval_trigger_new(keyval, modifiers) ==
  /\ Idle
  /\ CanMalloc(heap)
  /\ LET self == Malloc(heap)
     IN  /\ heap' = gtk_keyval_trigger_new(heap, self, keyval, modifiers)
         /\ owned' = [owned EXCEPT ![self] = 1]
         /\ made' = [made EXCEPT ![self] = [NoArgs EXCEPT !.keyval = keyval,
                                                          !.modifiers = modifiers]]
         /\ last' = [NoCall EXCEPT !.op = "gtk_keyval_trigger_new", !.keyval = keyval,
                                   !.modifiers = modifiers, !.ret = self]
  /\ UNCHANGED <<fault, thr>>

\* The references of a the callers must own to pass first and second.
Needs(first, second, a) ==
  (IF first = a THEN 1 ELSE 0) + (IF second = a THEN 1 ELSE 0)

Call_gtk_alternative_trigger_new(first, second) ==
  /\ Idle
  /\ \A a \in Addr : owned[a] >= Needs(first, second, a)
  /\ (first # NULL /\ second # NULL) => CanMalloc(heap)
  /\ LET self == gtk_alternative_trigger_new_ret(heap, first, second)
     IN  /\ heap' = gtk_alternative_trigger_new(heap, first, second)
         /\ owned' = IF self = NULL THEN owned
                     ELSE [a \in Addr |-> IF a = self THEN 1
                                          ELSE owned[a] - Needs(first, second, a)]
         /\ made' = IF self = NULL THEN made
                    ELSE [made EXCEPT ![self] = [NoArgs EXCEPT !.first = first,
                                                               !.second = second]]
         /\ last' = [NoCall EXCEPT !.op = "gtk_alternative_trigger_new", !.first = first,
                                   !.second = second, !.ret = self]
  /\ UNCHANGED <<fault, thr>>

Call_gtk_shortcut_trigger_ref(self) ==
  /\ Idle
  /\ self # NULL => heap[self].ref_count < MaxRef
  /\ heap' = gtk_shortcut_trigger_ref(heap, self)
  /\ owned' = IF self = NULL THEN owned ELSE [owned EXCEPT ![self] = @ + 1]
  /\ last' = [NoCall EXCEPT !.op = "gtk_shortcut_trigger_ref", !.self = self, !.ret = self]
  /\ UNCHANGED <<made, fault, thr>>

Call_gtk_shortcut_trigger_unref(self) ==
  /\ Idle
  /\ self # NULL => owned[self] > 0
  /\ LET m == gtk_shortcut_trigger_unref(Mem(heap), self)
     IN  /\ heap' = m.h
         /\ fault' = m.fault
         /\ made' = [a \in Addr |-> IF m.h[a].st = "Live" THEN made[a] ELSE NoArgs]
         /\ last' = [NoCall EXCEPT !.op = "gtk_shortcut_trigger_unref", !.self = self,
                                   !.decs = m.decs, !.frees = m.frees]
  /\ owned' = IF self = NULL THEN owned ELSE [owned EXCEPT ![self] = @ - 1]
  /\ UNCHANGED thr

Call_gtk_shortcut_trigger_get_trigger_type(self) ==
  /\ Idle
  /\ last' = [NoCall EXCEPT !.op = "gtk_shortcut_trigger_get_trigger_type", !.self = self,
                            !.rett = gtk_shortcut_trigger_get_trigger_type(heap, self)]
  /\ UNCHANGED <<heap, owned, made, fault, thr>>

Call_gtk_shortcut_trigger_trigger(self, event) ==
  /\ Idle
  /\ LET r == gtk_shortcut_trigger_trigger(heap, self, event, 0)
     IN  last' = [NoCall EXCEPT !.op = "gtk_shortcut_trigger_trigger", !.self = self,
                                !.event = event, !.retb = r.ret, !.calls = r.calls]
  /\ UNCHANGED <<heap, owned, made, fault, thr>>

Call_gtk_keyval_trigger_get_modifiers(self) ==
  /\ Idle
  /\ last' = [NoCall EXCEPT !.op = "gtk_keyval_trigger_get_modifiers", !.self = self,
                            !.ret = gtk_keyval_trigger_get_modifiers(heap, self)]
  /\ UNCHANGED <<heap, owned, made, fault, thr>>

Call_gtk_keyval_trigger_get_keyval(self) ==
  /\ Idle
  /\ last' = [NoCall EXCEPT !.op = "gtk_keyval_trigger_get_keyval", !.self = self,
                            !.ret = gtk_keyval_trigger_get_keyval(heap, self)]
  /\ UNCHANGED <<heap, owned, made, fault, thr>>

Call_gtk_alternative_trigger_get_first(self) ==
  /\ Idle
  /\ last' = [NoCall EXCEPT !.op = "gtk_alternative_trigger_get_first", !.self = self,
                            !.ret = gtk_alternative_trigger_get_first(heap, self)]
  /\ UNCHANGED <<heap, owned, made, fault, thr>>

Call_gtk_alternative_trigger_get_second(self) ==
  /\ Idle
  /\ last' = [NoCall EXCEPT !.op = "gtk_alternative_trigger_get_second", !.self = self,
                            !.ret = gtk_alternative_trigger_get_second(heap, self)]
  /\ UNCHANGED <<heap, owned, made, fault, thr>>

\* The caller takes the result of the call; the next call can start.
Return ==
  /\ last.op # "none"
  /\ fault = "none"
  /\ last' = NoCall
  /\ UNCHANGED <<heap, owned, made, fault, thr>>

Next ==
  \/ Return
  \/ Call_gtk_never_trigger_get
  \/ \E keyval \in SomeKeys, modifiers \in SomeMods :
       Call_gtk_keyval_trigger_new(keyval, modifiers)
  \/ \E first \in {NULL} \cup Owned, second \in {NULL} \cup Owned :
       Call_gtk_alternative_trigger_new(first, second)
  \/ \E self \in {NULL} \cup Held : Call_gtk_shortcut_trigger_ref(self)
  \/ \E self \in {NULL} \cup Owned : Call_gtk_shortcut_trigger_unref(self)
  \/ \E self \in {NULL} \cup Held : Call_gtk_shortcut_trigger_get_trigger_type(self)
  \/ \E self \in {NULL} \cup Held, event \in SomeEvents :
       Call_gtk_shortcut_trigger_trigger(self, event)
  \/ \E self \in {NULL} \cup Held : Call_gtk_keyval_trigger_get_modifiers(self)
  \/ \E self \in {NULL} \cup Held : Call_gtk_keyval_trigger_get_keyval(self)
  \/ \E self \in {NULL} \cup Held : Call_gtk_alternative_trigger_get_first(self)
  \/ \E self \in {NULL} \cup Held : Call_gtk_alternative_trigger_get_second(self)

Spec == Init /\ [][Next]_vars

\* One keyval trigger at a time, over every key, modifier state and event.
KeyNext ==
  \/ Return
  \/ \E keyval \in Keys, modifiers \in Mods :
       Owned = {} /\ Call_gtk_keyval_trigger_new(keyval, modifiers)
  \/ \E self \in Owned : Call_gtk_shortcut_trigger_unref(self)
  \/ \E self \in Held, event \in Events : Call_gtk_shortcut_trigger_trigger(self, event)
  \/ \E self \in Held : Call_gtk_keyval_trigger_get_modifiers(self)
  \/ \E self \in Held : Call_gtk_keyval_trigger_get_keyval(self)

KeySpec == Init /\ [][KeyNext]_vars

(***************************************************************************)
(* ConcSpec: gtk_shortcut_trigger_unref() one memory operation at a time.  *)
(* Every thread owns references of its own and has a stack of frames, one  *)
(* for each gtk_shortcut_trigger_unref() it is in; a frame holds self, the *)
(* place the call has reached and the value g_atomic_ref_count_dec()       *)
(* returned to it.  A structure is "Live", then "Finalizing" once its      *)
(* count reached 0, "Finalized" once the finalize hook of its class was    *)
(* entered, and "Free" after g_free().                                     *)
(***************************************************************************)
Frame(self) == [self |-> self, pc |-> "dec", zero |-> FALSE]

Top(t) == thr[t].stack[Len(thr[t].stack)]

Running(t) == fault = "none" /\ thr[t].stack # <<>>

Ready(t) == fault = "none" /\ thr[t].stack = <<>>

SetTop(t, f) == [thr EXCEPT ![t].stack[Len(thr[t].stack)] = f]

Pop(t) == [thr EXCEPT ![t].stack = SubSeq(@, 1, Len(@) - 1)]

\* Mutant: the count is read again from the structure to decide.
UnrefBranch_reread(h, f) == h[f.self].ref_count = 0

\* if (g_atomic_ref_count_dec (&self->ref_count)): the value the call returned.
UnrefBranch(h, f) == f.zero

\* The handles thread t holds: the singleton, the references it owns and the
\* children it reaches from them.
ThreadHeld(t) ==
  {gtk_never_trigger_get}
    \cup UNION {Descendants(heap, a) : a \in {b \in Addr : thr[t].owned[b] > 0}}

\* The bound of ConcSpec on the structures allocated at the same time.
ConcCanMalloc == Cardinality(Dyn \ FreeSlots(heap)) < ConcMaxObj

ConcKeyvalNew(t, keyval, modifiers) ==
  /\ Ready(t)
  /\ ConcCanMalloc
  /\ LET self == Malloc(heap)
     IN  /\ heap' = gtk_keyval_trigger_new(heap, self, keyval, modifiers)
         /\ thr' = [thr EXCEPT ![t].owned[self] = 1]
  /\ UNCHANGED <<owned, made, fault, last>>

ConcAlternativeNew(t, first, second) ==
  /\ Ready(t)
  /\ ConcCanMalloc
  /\ \A a \in Addr : thr[t].owned[a] >= Needs(first, second, a)
  /\ LET self == gtk_alternative_trigger_new_ret(heap, first, second)
     IN  /\ heap' = gtk_alternative_trigger_new(heap, first, second)
         /\ thr' = [thr EXCEPT ![t].owned =
                      [a \in Addr |-> IF a = self THEN 1
                                      ELSE @[a] - Needs(first, second, a)]]
  /\ UNCHANGED <<owned, made, fault, last>>

\* Thread t acquires a reference on self and hands it to thread u.
ConcRef(t, u, self) ==
  /\ Ready(t)
  /\ heap[self].ref_count < ConcMaxRef
  /\ heap' = gtk_shortcut_trigger_ref(heap, self)
  /\ thr' = [thr EXCEPT ![u].owned[self] = @ + 1]
  /\ UNCHANGED <<owned, made, fault, last>>

\* Thread t enters gtk_shortcut_trigger_unref (self) with a reference it owns.
ConcUnref(t, self) ==
  /\ Ready(t)
  /\ thr[t].owned[self] > 0
  /\ thr' = [thr EXCEPT ![t].owned[self] = @ - 1,
                        ![t].stack = IF GTK_IS_SHORTCUT_TRIGGER(self)
                                     THEN <<Frame(self)>> ELSE <<>>]
  /\ UNCHANGED <<heap, owned, made, fault, last>>

\* g_atomic_ref_count_dec (&self->ref_count): one atomic decrement-and-test.
ConcDec(t) ==
  /\ Running(t)
  /\ Top(t).pc = "dec"
  /\ LET self == Top(t).self
         n == heap[self].ref_count - 1
     IN  IF heap[self].st = "Free"
         THEN /\ fault' = "use_after_free"
              /\ UNCHANGED <<heap, thr>>
         ELSE /\ heap' = [heap EXCEPT ![self].ref_count = n,
                                      ![self].st = IF n = 0 /\ @ = "Live"
                                                   THEN "Finalizing" ELSE @]
              /\ thr' = SetTop(t, [Top(t) EXCEPT !.pc = "branch", !.zero = (n = 0)])
              /\ UNCHANGED fault
  /\ UNCHANGED <<owned, made, last>>

\* The branch on the value returned: finalize, or return.
ConcBranch(t) ==
  /\ Running(t)
  /\ Top(t).pc = "branch"
  /\ thr' = IF UnrefBranch(heap, Top(t))
            THEN SetTop(t, [Top(t) EXCEPT !.pc = "hook"])
            ELSE Pop(t)
  /\ UNCHANGED <<heap, owned, made, fault, last>>

\* gtk_shortcut_trigger_finalize(): self->trigger_class->finalize (self) entered.
ConcHook(t) ==
  /\ Running(t)
  /\ Top(t).pc = "hook"
  /\ LET self == Top(t).self
     IN  IF heap[self].st # "Finalizing"
         THEN /\ fault' = IF heap[self].st = "Free" THEN "use_after_free"
                          ELSE "double_finalize"
              /\ UNCHANGED <<heap, thr>>
         ELSE IF heap[self].trigger_type = GTK_SHORTCUT_TRIGGER_NEVER
         THEN /\ fault' = "g_assert_not_reached"
              /\ UNCHANGED <<heap, thr>>
         ELSE /\ heap' = [heap EXCEPT ![self].st = "Finalized"]
              /\ thr' = SetTop(t, [Top(t) EXCEPT !.pc =
                           IF heap[self].trigger_type = GTK_SHORTCUT_TRIGGER_ALTERNATIVE
                           THEN "first" ELSE "free"])
              /\ UNCHANGED fault
  /\ UNCHANGED <<owned, made, last>>

\* gtk_alternative_trigger_finalize(): gtk_shortcut_trigger_unref (self->first)
ConcFirst(t) ==
  /\ Running(t)
  /\ Top(t).pc = "first"
  /\ thr' = [SetTop(t, [Top(t) EXCEPT !.pc = "second"])
               EXCEPT ![t].stack = Append(@, Frame(heap[Top(t).self].first))]
  /\ UNCHANGED <<heap, owned, made, fault, last>>

\* gtk_alternative_trigger_finalize(): gtk_shortcut_trigger_unref (self->second)
ConcSecond(t) ==
  /\ Running(t)
  /\ Top(t).pc = "second"
  /\ thr' = [SetTop(t, [Top(t) EXCEPT !.pc = "free"])
               EXCEPT ![t].stack = Append(@, Frame(heap[Top(t).self].second))]
  /\ UNCHANGED <<heap, owned, made, fault, last>>

\* gtk_shortcut_trigger_finalize(): g_free (self)
ConcFree(t) ==
  /\ Running(t)
  /\ Top(t).pc = "free"
  /\ LET self == Top(t).self
     IN  IF heap[self].st # "Finalized"
         THEN /\ fault' = "double_free"
              /\ UNCHANGED <<heap, thr>>
         ELSE /\ heap' = [heap EXCEPT ![self] = FreeSlot]
              /\ thr' = Pop(t)
              /\ UNCHANGED fault
  /\ UNCHANGED <<owned, made, last>>

ConcNext ==
  \E t \in Threads :
    \/ \E keyval \in {GDK_KEY_A}, modifiers \in SomeMods : ConcKeyvalNew(t, keyval, modifiers)
    \/ \E first \in Addr, second \in Addr : ConcAlternativeNew(t, first, second)
    \/ \E u \in Threads, self \in ThreadHeld(t) : ConcRef(t, u, self)
    \/ \E self \in Addr : ConcUnref(t, self)
    \/ ConcDec(t)
    \/ ConcBranch(t)
    \/ ConcHook(t)
    \/ ConcFirst(t)
    \/ ConcSecond(t)
    \/ ConcFree(t)

ConcSpec == Init /\ [][ConcNext]_vars

(***************************************************************************)
(* Properties.                                                             *)
(***************************************************************************)
\* The normalisation the properties speak of: ISO_Left_Tab becomes Tab, every
\* other key value its lower-case form.
normalize(K) ==
  IF K = GDK_KEY_ISO_Left_Tab THEN GDK_KEY_Tab ELSE gdk_keyval_to_lower(K)

IsLive(a) == a # NULL /\ heap[a].st = "Live"

IsType(a, type) == IsLive(a) /\ heap[a].trigger_type = type

\* What the keyval trigger built from (K, M) has to answer to event e.
Matches(K, M, e) ==
  /\ e.type = "GDK_KEY_PRESS"
  /\ normalize(e.keyval) = normalize(K)
  /\ e.state = M

\* C1: a keyval trigger built from (K, M) matches an event exactly when the
\* event is a key press, its normalised key value equals the normalised K and
\* its modifier state equals M; checked on every evaluation of a keyval
\* trigger, and for every event right after the trigger was built.
C1_KeyvalMatchesExactly ==
  /\ (last.op = "gtk_shortcut_trigger_trigger"
        /\ IsType(last.self, GTK_SHORTCUT_TRIGGER_KEYVAL))
     => (last.retb <=> Matches(made[last.self].keyval, made[last.self].modifiers,
                               last.event))
  /\ last.op = "gtk_keyval_trigger_new"
     => \A e \in Events :
          gtk_shortcut_trigger_trigger(heap, last.ret, e, 0).ret
            <=> Matches(last.keyval, last.modifiers, e)

\* C1 witness: an upper-case key press answered TRUE by a trigger built from the
\* lower-case key, and an event with one extra modifier bit answered FALSE.
C1_Witness ==
  /\ last.op = "gtk_shortcut_trigger_trigger"
  /\ IsType(last.self, GTK_SHORTCUT_TRIGGER_KEYVAL)
  /\ made[last.self].keyval = GDK_KEY_a
  /\ made[last.self].modifiers = GDK_CONTROL_MASK
  /\ last.event.type = "GDK_KEY_PRESS"
  /\ last.event.keyval = GDK_KEY_A
  /\ \/ last.event.state = GDK_CONTROL_MASK /\ last.retb
     \/ last.event.state = GDK_CONTROL_MASK + GDK_SHIFT_MASK /\ ~last.retb

\* C8: the stored key value is the normalised K and a fixed point of the
\* normalisation, the modifiers are stored verbatim, normalising twice equals
\* normalising once, ISO_Left_Tab and Tab normalise alike, and the trigger
\* rebuilt from the accessors' results stores the same fields and matches the
\* same events.
C8_NormalizeIdempotent ==
  /\ \A a \in Dyn : IsType(a, GTK_SHORTCUT_TRIGGER_KEYVAL) =>
       LET k == gtk_keyval_trigger_get_keyval(heap, a)
           mo == gtk_keyval_trigger_get_modifiers(heap, a)
           b == Malloc(heap)
           h2 == gtk_keyval_trigger_new(heap, b, k, mo)
       IN  /\ k = normalize(made[a].keyval)
           /\ normalize(k) = k
           /\ normalize(normalize(made[a].keyval)) = normalize(made[a].keyval)
           /\ mo = made[a].modifiers
           /\ CanMalloc(heap) =>
                /\ h2[b].keyval = heap[a].keyval
                /\ h2[b].modifiers = heap[a].modifiers
                /\ \A e \in Events :
                     gtk_shortcut_trigger_trigger(h2, b, e, 0).ret
                       = gtk_shortcut_trigger_trigger(heap, a, e, 0).ret
  /\ (last.op = "gtk_keyval_trigger_get_keyval"
        /\ IsType(last.self, GTK_SHORTCUT_TRIGGER_KEYVAL))
     => last.ret = normalize(made[last.self].keyval)
  /\ (last.op = "gtk_keyval_trigger_get_modifiers"
        /\ IsType(last.self, GTK_SHORTCUT_TRIGGER_KEYVAL))
     => last.ret = made[last.self].modifiers
  /\ normalize(GDK_KEY_ISO_Left_Tab) = normalize(GDK_KEY_Tab)

\* C8 witness: the key value read back from a trigger built from ISO_Left_Tab.
C8_Witness ==
  /\ last.op = "gtk_keyval_trigger_get_keyval"
  /\ IsType(last.self, GTK_SHORTCUT_TRIGGER_KEYVAL)
  /\ made[last.self].keyval = GDK_KEY_ISO_Left_Tab
  /\ last.ret = GDK_KEY_Tab

\* The evaluators a call ran directly (one level below the call itself).
Direct(calls) == SelectSeq(calls, LAMBDA c : c.depth = 1)

\* The result of evaluating trigger x on event e in the current heap.
Eval(x, e) == gtk_shortcut_trigger_trigger(heap, x, e, 0).ret

\* C2: evaluating an alternative trigger built over (A, B) returns A's result OR
\* B's result; A's evaluator runs first, and B's evaluator runs exactly when A's
\* returned FALSE.
C2_AlternativeShortCircuits ==
  (last.op = "gtk_shortcut_trigger_trigger"
     /\ IsType(last.self, GTK_SHORTCUT_TRIGGER_ALTERNATIVE))
  => LET A == made[last.self].first
         B == made[last.self].second
         rA == gtk_shortcut_trigger_trigger(heap, A, last.event, 1)
         rB == gtk_shortcut_trigger_trigger(heap, B, last.event, 1)
         D == Direct(last.calls)
     IN  /\ last.retb = (rA.ret \/ rB.ret)
         /\ last.calls[1] = [self |-> last.self, depth |-> 0]
         /\ D[1].self = A
         /\ rA.ret => Len(D) = 1
         /\ ~rA.ret => (Len(D) = 2 /\ D[2].self = B)
         /\ last.calls = <<[self |-> last.self, depth |-> 0]>> \o rA.calls
                            \o (IF rA.ret THEN <<>> ELSE rB.calls)

\* C2 witness: an alternative whose first sub-trigger matched, over a second
\* sub-trigger that would have matched too and was not evaluated.
C2_Witness ==
  /\ last.op = "gtk_shortcut_trigger_trigger"
  /\ IsType(last.self, GTK_SHORTCUT_TRIGGER_ALTERNATIVE)
  /\ last.retb
  /\ Eval(made[last.self].first, last.event)
  /\ Eval(made[last.self].second, last.event)
  /\ Len(Direct(last.calls)) = 1

\* The heap and the handle after gtk_alternative_trigger_new (first, second).
AltOver(h, first, second) ==
  [h |-> gtk_alternative_trigger_new(h, first, second),
   ret |-> gtk_alternative_trigger_new_ret(h, first, second)]

\* C7: a nested alternative matches exactly the events one of its three leaves
\* matches, whichever way it is nested; both nestings of the same three
\* triggers agree; an alternative of the never trigger and T matches exactly
\* the events T matches.
C7_AlternativeAssociative ==
  /\ (last.op = "gtk_shortcut_trigger_trigger"
        /\ IsType(last.self, GTK_SHORTCUT_TRIGGER_ALTERNATIVE))
     => LET f == heap[last.self].first
            g == heap[last.self].second
            e == last.event
        IN  /\ IsType(f, GTK_SHORTCUT_TRIGGER_ALTERNATIVE) =>
                 last.retb = (Eval(heap[f].first, e) \/ Eval(heap[f].second, e)
                                \/ Eval(g, e))
            /\ IsType(g, GTK_SHORTCUT_TRIGGER_ALTERNATIVE) =>
                 last.retb = (Eval(f, e) \/ Eval(heap[g].first, e)
                                \/ Eval(heap[g].second, e))
            /\ f = never => last.retb = Eval(g, e)
            /\ g = never => last.retb = Eval(f, e)
  /\ Cardinality(FreeSlots(heap)) >= 2 =>
       \A A \in Held, B \in Held, C \in Held, e \in SomeEvents :
         LET ab == AltOver(heap, A, B)
             ab_c == AltOver(ab.h, ab.ret, C)
             bc == AltOver(heap, B, C)
             a_bc == AltOver(bc.h, A, bc.ret)
             l == gtk_shortcut_trigger_trigger(ab_c.h, ab_c.ret, e, 0).ret
             r == gtk_shortcut_trigger_trigger(a_bc.h, a_bc.ret, e, 0).ret
         IN  /\ l = r
             /\ l = (Eval(A, e) \/ Eval(B, e) \/ Eval(C, e))

\* C7 witness: a match found in the second leaf of an alternative nested on the
\* left, below the never trigger.
C7_Witness ==
  /\ last.op = "gtk_shortcut_trigger_trigger"
  /\ IsType(last.self, GTK_SHORTCUT_TRIGGER_ALTERNATIVE)
  /\ IsType(heap[last.self].first, GTK_SHORTCUT_TRIGGER_ALTERNATIVE)
  /\ heap[heap[last.self].first].first = never
  /\ IsType(heap[heap[last.self].first].second, GTK_SHORTCUT_TRIGGER_KEYVAL)
  /\ last.retb

\* What a step that is a call violating its contract has to do.
C9_Step ==
  /\ (last'.op = "gtk_alternative_trigger_new"
        /\ (last'.first = NULL \/ last'.second = NULL))
     => (last'.ret = NULL /\ heap' = heap)
  /\ (last'.op \in {"gtk_keyval_trigger_get_keyval", "gtk_keyval_trigger_get_modifiers"}
        /\ ~IsType(last'.self, GTK_SHORTCUT_TRIGGER_KEYVAL))
     => (last'.ret = 0 /\ heap' = heap)
  /\ (last'.op \in {"gtk_alternative_trigger_get_first",
                    "gtk_alternative_trigger_get_second"}
        /\ ~IsType(last'.self, GTK_SHORTCUT_TRIGGER_ALTERNATIVE))
     => (last'.ret = NULL /\ heap' = heap)
  /\ (last'.op = "gtk_shortcut_trigger_get_trigger_type" /\ last'.self = NULL)
     => (last'.rett = GTK_SHORTCUT_TRIGGER_NEVER /\ heap' = heap)
  /\ (last'.op = "gtk_shortcut_trigger_trigger" /\ last'.self = NULL)
     => (~last'.retb /\ last'.calls = <<>> /\ heap' = heap)

\* C9: a call that violates its contract returns the safe default and leaves
\* every structure as it was: the alternative constructor with a NULL argument
\* returns NULL and allocates nothing, the keyval accessors return 0 and the
\* alternative accessors NULL on a trigger of another type, the type of NULL is
\* NEVER, and evaluating NULL gives FALSE without running any evaluator.
C9_ContractViolationsSafe == [][C9_Step]_vars

\* C9 witness: the alternative constructor rejected a NULL second argument and
\* the valid first argument kept its reference count.
C9_Witness ==
  /\ last.op = "gtk_alternative_trigger_new"
  /\ last.first # NULL
  /\ last.second = NULL
  /\ last.ret = NULL
  /\ heap[last.first].ref_count = owned[last.first]
  /\ FreeSlots(heap) = Dyn \ {last.first}

\* What a step that acquires a reference has to do, and the release after it.
C5_Step ==
  (last'.op = "gtk_shortcut_trigger_ref" /\ last'.self # NULL)
  => LET t == last'.self
         m == gtk_shortcut_trigger_unref(Mem(heap'), t)
     IN  /\ last'.ret = t
         /\ heap[t].st = "Live"
         /\ heap' = [heap EXCEPT ![t].ref_count = @ + 1]
         /\ m.fault = "none"
         /\ m.frees = <<>>
         /\ m.decs = <<t>>
         /\ m.h = heap
         /\ \A e \in SomeEvents :
              /\ gtk_shortcut_trigger_trigger(heap', t, e, 0)
                   = gtk_shortcut_trigger_trigger(heap, t, e, 0)
              /\ gtk_shortcut_trigger_trigger(m.h, t, e, 0)
                   = gtk_shortcut_trigger_trigger(heap, t, e, 0)

\* C5: acquiring a live trigger returns the same handle and changes nothing but
\* its reference count, and releasing it again finalizes nothing and restores
\* the heap as it was before the pair, so every event is answered as before.
C5_RefUnrefIsNoOp == [][C5_Step]_vars

\* C5 witness: a reference acquired on an alternative trigger that had one.
C5_Witness ==
  /\ last.op = "gtk_shortcut_trigger_ref"
  /\ IsType(last.self, GTK_SHORTCUT_TRIGGER_ALTERNATIVE)
  /\ heap[last.self].ref_count = 2

\* C6: the never singleton stays live with a reference count of at least 1, and
\* its finalize hook never runs.
C6_NeverSingletonSurvives ==
  /\ heap[never].st = "Live"
  /\ heap[never].trigger_type = GTK_SHORTCUT_TRIGGER_NEVER
  /\ heap[never].ref_count >= 1
  /\ fault # "g_assert_not_reached"
  /\ \A i \in 1..Len(last.frees) : last.frees[i] # never

\* C6 witness: an alternative that owned a reference on the singleton was
\* finalized and released it.
C6_Witness ==
  /\ last.op = "gtk_shortcut_trigger_unref"
  /\ last.frees # <<>>
  /\ \E i \in 1..Len(last.decs) : last.decs[i] = never

\* How often x occurs in a sequence, and the elements of a sequence.
Count(seq, x) == Cardinality({i \in 1..Len(seq) : seq[i] = x})

Range(seq) == {seq[i] : i \in 1..Len(seq)}

\* The references on x that the alternative triggers of P hold in heap h (one
\* for each of their two fields that points to x).
RECURSIVE SlotRefs(_, _, _)
SlotRefs(h, P, x) ==
  IF P = {} THEN 0
  ELSE LET p == CHOOSE q \in P : TRUE
       IN  (IF h[p].st = "Live" /\ h[p].trigger_type = GTK_SHORTCUT_TRIGGER_ALTERNATIVE
            THEN Needs(h[p].first, h[p].second, x)
            ELSE 0) + SlotRefs(h, P \ {p}, x)

\* The step releases the last reference of an alternative trigger, or one of
\* several.
ReleasesLast ==
  /\ last'.op = "gtk_shortcut_trigger_unref"
  /\ IsType(last'.self, GTK_SHORTCUT_TRIGGER_ALTERNATIVE)
  /\ heap[last'.self].ref_count = 1

ReleasesNonLast ==
  /\ last'.op = "gtk_shortcut_trigger_unref"
  /\ IsType(last'.self, GTK_SHORTCUT_TRIGGER_ALTERNATIVE)
  /\ heap[last'.self].ref_count > 1

Constructs ==
  /\ last'.op = "gtk_alternative_trigger_new"
  /\ last'.ret # NULL

\* The construction leaves every structure but the new one as it was, and a
\* release that is not the last changes the count of the alternative alone.
C4_Frame ==
  /\ Constructs =>
       /\ \A x \in Addr \ {last'.ret} : heap'[x] = heap[x]
       /\ heap'[last'.ret].first = last'.first
       /\ heap'[last'.ret].second = last'.second
       /\ heap'[last'.ret].ref_count = 1
  /\ ReleasesNonLast =>
       /\ heap' = [heap EXCEPT ![last'.self].ref_count = @ - 1]
       /\ last'.decs = <<last'.self>>
       /\ last'.frees = <<>>

\* The release of the last reference decrements each sub-trigger once.
C4_OriginalStep ==
  /\ C4_Frame
  /\ ReleasesLast =>
       LET A == heap[last'.self].first
           B == heap[last'.self].second
       IN  /\ Count(last'.decs, A) = Needs(A, B, A)
           /\ Count(last'.decs, B) = Needs(A, B, B)

\* C4 as stated: releasing the last reference of an alternative over (A, B)
\* decrements the count of A exactly once and the count of B exactly once
\* (read as once for each of the two when the same trigger was passed twice).
C4_Original == [][C4_OriginalStep]_vars

\* The release of the last reference decrements a trigger once for every field
\* of a finalized alternative that points to it.
C4_Step ==
  /\ C4_Frame
  /\ ReleasesLast =>
       LET P == last'.self
           A == heap[P].first
           B == heap[P].second
           F == Range(last'.frees)
       IN  /\ last'.decs[1] = P
           /\ P \in F
           /\ \A x \in Addr :
                /\ Count(last'.decs, x)
                     = (IF x = P THEN 1 ELSE 0) + SlotRefs(heap, F, x)
                /\ x \notin F =>
                     heap'[x] = [heap[x] EXCEPT !.ref_count = @ - Count(last'.decs, x)]
           /\ (A # B /\ SlotRefs(heap, F \ {P}, A) = 0 /\ SlotRefs(heap, F \ {P}, B) = 0)
                => (Count(last'.decs, A) = 1 /\ Count(last'.decs, B) = 1)
           /\ A = B => Count(last'.decs, A) >= 2

\* C4, amended: constructing an alternative over (A, B) changes no count;
\* releasing its last reference releases one reference through each of its two
\* fields, and so does every alternative finalized in the cascade: the count of
\* a trigger drops once for every field of a finalized alternative that points
\* to it, which is exactly once for A and for B when they are distinct and no
\* other finalized trigger owns them, and twice when A and B are the same
\* trigger.  Releasing a reference that is not the last changes no other count.
C4_AlternativeOwnsOneReferencePerField == [][C4_Step]_vars

\* C4 witness: the last reference of an alternative over two distinct triggers
\* was released; both lost one reference and both are still live.
C4_Witness ==
  /\ last.op = "gtk_shortcut_trigger_unref"
  /\ Len(last.decs) = 3
  /\ last.frees = <<last.decs[1]>>
  /\ last.decs[2] # last.decs[3]
  /\ IsLive(last.decs[2])
  /\ IsLive(last.decs[3])

\* C10: the process never touches freed memory or frees twice; a structure is
\* live exactly while its count is at least 1, and its count is the number of
\* references the callers own plus the fields of live alternatives that point
\* to it (plus the singleton's own); the children of a live alternative are
\* live; a release frees exactly the structures whose count it brought to zero,
\* each once, children before their parent.
C10_CascadeRespectsSharing ==
  /\ fault = "none"
  /\ \A a \in Dyn : (heap[a].st = "Live") <=> (heap[a].ref_count >= 1)
  /\ \A a \in Dyn : heap[a].st = "Free" => (heap[a] = FreeSlot /\ owned[a] = 0)
  /\ \A a \in Addr : heap[a].st = "Live" =>
       heap[a].ref_count
         = owned[a] + SlotRefs(heap, Addr, a) + (IF a = never THEN 1 ELSE 0)
  /\ \A a \in Addr : IsType(a, GTK_SHORTCUT_TRIGGER_ALTERNATIVE) =>
       (IsLive(heap[a].first) /\ IsLive(heap[a].second))
  /\ last.op = "gtk_shortcut_trigger_unref" =>
       /\ \A x \in Addr : Count(last.frees, x) <= 1
       /\ \A x \in Range(last.decs) : (x \in Range(last.frees)) <=> (heap[x].st = "Free")
       /\ \A i \in 1..Len(last.frees) : \E j \in 1..Len(last.decs) :
            last.decs[j] = last.frees[i]
       /\ (last.self # NULL /\ last.frees # <<>>)
            => last.frees[Len(last.frees)] = last.self

\* C10 witness: releasing the root of a nesting freed the root, the nested
\* alternative and a leaf both of them owned, and left a shared trigger live.
C10_Witness ==
  /\ last.op = "gtk_shortcut_trigger_unref"
  /\ Len(last.frees) = 3
  /\ \E x \in Range(last.frees) : Count(last.decs, x) = 2
  /\ \E x \in Range(last.decs) : IsLive(x)

\* The frames of all threads, as <<thread, position in its stack>>.
Frames == {<<t, i>> : t \in Threads, i \in 1..MaxObj + 1}
            \cap {p \in Threads \X Nat : p[2] <= Len(thr[p[1]].stack)}

FrameAt(p) == thr[p[1]].stack[p[2]]

\* The references on x that are counted in ConcSpec: those the threads own,
\* those handed to a gtk_shortcut_trigger_unref() that has not decremented yet,
\* and the fields of alternatives that have not released them yet.
RECURSIVE SumOwned(_, _)
SumOwned(T, x) ==
  IF T = {} THEN 0
  ELSE LET t == CHOOSE u \in T : TRUE
       IN  thr[t].owned[x] + SumOwned(T \ {t}, x)

PendingDecs(x) == Cardinality({p \in Frames : FrameAt(p).self = x /\ FrameAt(p).pc = "dec"})

\* The alternatives whose field first (second) still holds its reference.
HoldsFirst ==
  {a \in Dyn : heap[a].trigger_type = GTK_SHORTCUT_TRIGGER_ALTERNATIVE
               /\ \/ heap[a].st = "Live"
                  \/ \E p \in Frames : FrameAt(p).self = a /\ FrameAt(p).zero
                                        /\ FrameAt(p).pc \in {"branch", "hook", "first"}}

HoldsSecond ==
  {a \in Dyn : heap[a].trigger_type = GTK_SHORTCUT_TRIGGER_ALTERNATIVE
               /\ \/ heap[a].st = "Live"
                  \/ \E p \in Frames : FrameAt(p).self = a /\ FrameAt(p).zero
                                        /\ FrameAt(p).pc \in {"branch", "hook", "first", "second"}}

FieldRefs(x) ==
  Cardinality({a \in HoldsFirst : heap[a].first = x})
    + Cardinality({a \in HoldsSecond : heap[a].second = x})

\* The frames that finalize structure a.
Finalizers(a) == {p \in Frames : FrameAt(p).self = a /\ FrameAt(p).zero}

\* C3: whatever the interleaving of the threads' releases, no count goes below
\* zero, no decrement, hook or g_free() touches a freed structure, the finalize
\* hook and g_free() run once for a structure, in the one thread whose
\* decrement returned TRUE, and a structure is live exactly while references
\* on it are left.
C3_ConcurrentReleaseFinalizesOnce ==
  /\ fault = "none"
  /\ \A a \in Addr :
       /\ heap[a].ref_count >= 0
       /\ (heap[a].st = "Live") <=> (heap[a].ref_count >= 1)
       /\ heap[a].st # "Free" =>
            heap[a].ref_count
              = SumOwned(Threads, a) + PendingDecs(a) + FieldRefs(a)
                  + (IF a = never THEN 1 ELSE 0)
       /\ heap[a].st = "Free" => (SumOwned(Threads, a) = 0 /\ Finalizers(a) = {})
       /\ heap[a].st = "Live" => Finalizers(a) = {}
       /\ heap[a].st \in {"Finalizing", "Finalized"} =>
            /\ Cardinality(Finalizers(a)) = 1
            /\ \A p \in Finalizers(a) :
                 (heap[a].st = "Finalizing") <=> (FrameAt(p).pc \in {"branch", "hook"})
  /\ \A p \in Frames :
       /\ FrameAt(p).pc = "dec" => heap[FrameAt(p).self].st = "Live"
       /\ (FrameAt(p).pc = "branch" /\ ~FrameAt(p).zero)
            => p[2] = Len(thr[p[1]].stack)

\* C3 witness: two threads released the same alternative trigger at the same
\* time; the decrement of one returned FALSE, the decrement of the other TRUE,
\* and neither has gone on yet.
C3_Witness ==
  \E a \in Dyn :
    /\ heap[a].trigger_type = GTK_SHORTCUT_TRIGGER_ALTERNATIVE
    /\ heap[a].st = "Finalizing"
    /\ thr[1].stack = <<[self |-> a, pc |-> "branch", zero |-> FALSE]>>
    /\ thr[2].stack = <<[self |-> a, pc |-> "branch", zero |-> TRUE]>>

=============================================================================
